---- MODULE Spec2Model ----
(***************************************************************************)
(* Model of src/app.py (First Words Tracker): the practice-word            *)
(* recommender get_practice_words, the growth aggregation of               *)
(* create_vocabulary_chart, and the word-list handlers of main().          *)
(*                                                                         *)
(* A Python str is a sequence of one-character strings, so that lower()    *)
(* and strip() are computed character by character.  A dict and a pandas   *)
(* row are functions on their keys.  A "YYYY-MM-DD" date string is the     *)
(* triple <<year, month, day>> of its fields.                              *)
(***************************************************************************)
EXTENDS Integers, Sequences, FiniteSets, TLC

VARIABLES
    child_data,        \* data["children"][selected_child]: a dict with "words" and, optionally, "birthday"
    typical_words_df,  \* the rows of typical_baby_words.csv as load_typical_words() returns them
    practice_words,    \* what get_practice_words last returned (NotCalled before)
    chart              \* what create_vocabulary_chart last returned (NotCalled before)

vars == <<child_data, typical_words_df, practice_words, chart>>

-----------------------------------------------------------------------------
(* Python values *)

None == [none |-> TRUE]
NaN == <<"nan">>    \* what pandas.read_csv yields for an empty cell

\* the outcome of a call: not made yet, a returned value, or a raised exception
NotCalled == [status |-> "not_called"]
Return(value) == [status |-> "returned", value |-> value]
Raise(error) == [status |-> "raised", error |-> error]

\* dict.get(key, default) and Series.get(key, default)
Get(d, key, default) == IF key \in DOMAIN d THEN d[key] ELSE default

Min(a, b) == IF a <= b THEN a ELSE b

\* a slice that keeps one item too many
TakeOneMore(seq, n) == SubSeq(seq, 1, Min(n + 1, Len(seq)))

\* seq[:n]
Take(seq, n) == SubSeq(seq, 1, Min(n, Len(seq)))

\* str.lower() on one character
lower_char(c) ==
    CASE c = "U" -> "u"
      [] c = "P" -> "p"
      [] c = "D" -> "d"
      [] c = "M" -> "m"
      [] OTHER -> c

\* str.lower()
lower(s) == [i \in 1..Len(s) |-> lower_char(s[i])]

is_space(c) == c = " "

RECURSIVE lstrip(_)
lstrip(s) == IF s # <<>> /\ is_space(Head(s)) THEN lstrip(Tail(s)) ELSE s

RECURSIVE rstrip(_)
rstrip(s) ==
    IF s # <<>> /\ is_space(s[Len(s)]) THEN rstrip(SubSeq(s, 1, Len(s) - 1)) ELSE s

\* str.strip()
strip(s) == rstrip(lstrip(s))

-----------------------------------------------------------------------------
(* get_practice_words *)

PracticeLimit == 5
LowConfidence == 50
UnknownAge == 999
DefaultStrategy == <<"Practice this word regularly with your child.">>

\* the last row of the frame whose lower-cased Word is key: a dict
\* comprehension keeps the value of the last occurrence of a key
LastRow(df, key) ==
    df[CHOOSE i \in DOMAIN df :
           /\ lower(df[i]["Word"]) = key
           /\ \A j \in DOMAIN df : lower(df[j]["Word"]) = key => j <= i]

typical_words_order(df) ==
    [key \in {lower(df[i]["Word"]) : i \in DOMAIN df} |->
        LastRow(df, key)["Typical Age (Months)"]]

typical_words_strategies(df) ==
    [key \in {lower(df[i]["Word"]) : i \in DOMAIN df} |->
        Get(LastRow(df, key), "Learning Strategy", <<>>)]

is_low_confidence(word_entry) == Get(word_entry, "confidence", 0) < LowConfidence

low_confidence_item(order, strategies, word_entry) ==
    LET word_lower == lower(word_entry["word"])
    IN  [word        |-> word_entry["word"],
         confidence  |-> Get(word_entry, "confidence", 0),
         typical_age |-> Get(order, word_lower, UnknownAge),
         in_vocab    |-> TRUE,
         strategy    |-> Get(strategies, word_lower, DefaultStrategy)]

\* the loop of lines 44-55 over child_data["words"]
RECURSIVE low_confidence_words(_, _, _)
low_confidence_words(order, strategies, words) ==
    IF words = <<>> THEN <<>>
    ELSE IF is_low_confidence(Head(words))
         THEN <<low_confidence_item(order, strategies, Head(words))>>
                  \o low_confidence_words(order, strategies, Tail(words))
         ELSE low_confidence_words(order, strategies, Tail(words))

\* an insertion that puts an item before the items of equal key
RECURSIVE insert_before_equal(_, _)
insert_before_equal(placed, item) ==
    IF placed = <<>> THEN <<item>>
    ELSE IF placed[Len(placed)].typical_age < item.typical_age
         THEN Append(placed, item)
         ELSE Append(insert_before_equal(SubSeq(placed, 1, Len(placed) - 1), item),
                     placed[Len(placed)])

\* list.sort(key=typical_age) inserts each item after the items already placed
\* whose key is not greater (binary insertion, stable)
RECURSIVE insert_sorted(_, _)
insert_sorted(placed, item) ==
    IF placed = <<>> THEN <<item>>
    ELSE IF placed[Len(placed)].typical_age <= item.typical_age
         THEN Append(placed, item)
         ELSE Append(insert_sorted(SubSeq(placed, 1, Len(placed) - 1), item),
                     placed[Len(placed)])

\* the list left in vocabulary order
not_sorted(items) == items

RECURSIVE sort_by_typical_age(_)
sort_by_typical_age(items) ==
    IF items = <<>> THEN <<>>
    ELSE insert_sorted(sort_by_typical_age(SubSeq(items, 1, Len(items) - 1)),
                       items[Len(items)])

\* the vocabulary words as spelled, not lower-cased
child_words_as_spelled(words) == {words[i]["word"] : i \in DOMAIN words}

child_words_lower(words) == {lower(words[i]["word"]) : i \in DOMAIN words}

typical_item(row) ==
    [word        |-> row["Word"],
     confidence  |-> 0,
     typical_age |-> row["Typical Age (Months)"],
     in_vocab    |-> FALSE,
     strategy    |-> Get(row, "Learning Strategy", DefaultStrategy)]

\* a fill loop that stops one item early
RECURSIVE add_typical_words_stop_early(_, _, _, _)
add_typical_words_stop_early(df, known, i, acc) ==
    IF i > Len(df) \/ Len(acc) >= PracticeLimit - 1 THEN acc
    ELSE IF lower(df[i]["Word"]) \notin known
         THEN add_typical_words_stop_early(df, known, i + 1, Append(acc, typical_item(df[i])))
         ELSE add_typical_words_stop_early(df, known, i + 1, acc)

\* the loop of lines 69-81 over the rows from row i on
RECURSIVE add_typical_words(_, _, _, _)
add_typical_words(df, known, i, acc) ==
    IF i > Len(df) \/ Len(acc) >= PracticeLimit THEN acc
    ELSE IF lower(df[i]["Word"]) \notin known
         THEN add_typical_words(df, known, i + 1, Append(acc, typical_item(df[i])))
         ELSE add_typical_words(df, known, i + 1, acc)

get_practice_words(child, df) ==
    LET words == Get(child, "words", <<>>)
        order == typical_words_order(df)
        strategies == typical_words_strategies(df)
        low   == sort_by_typical_age(low_confidence_words(order, strategies, words))
        first == Take(low, PracticeLimit)
        all   == IF Len(first) < PracticeLimit
                 THEN add_typical_words(df, child_words_lower(words), 1, first)
                 ELSE first
    IN  Return(Take(all, PracticeLimit))

-----------------------------------------------------------------------------
(* calculate_age_in_months and create_vocabulary_chart *)

\* datetime.strptime(date, "%Y-%m-%d")
strptime(date) == [year |-> date[1], month |-> date[2], day |-> date[3]]

\* an age that is never below 0
calculate_age_in_months_clamped(birthdate, target_date) ==
    LET birth  == strptime(birthdate)
        target == strptime(target_date)
        months == (target.year - birth.year) * 12 + target.month - birth.month
    IN  IF months < 0 THEN 0 ELSE months

calculate_age_in_months(birthdate, target_date) ==
    LET birth  == strptime(birthdate)
        target == strptime(target_date)
    IN  (target.year - birth.year) * 12 + target.month - birth.month

\* a grouping that keeps only the last word of each age
RECURSIVE words_by_age_last_only(_, _, _)
words_by_age_last_only(birthday, words, acc) ==
    IF words = <<>> THEN acc
    ELSE LET age_months == calculate_age_in_months(birthday, Head(words)["date_added"])
             next == [a \in DOMAIN acc \cup {age_months} |->
                         IF a = age_months THEN <<Head(words)["word"]>> ELSE acc[a]]
         IN  words_by_age_last_only(birthday, Tail(words), next)

\* the loop of lines 122-125: a defaultdict(list) from age to the words of that age
RECURSIVE words_by_age(_, _, _)
words_by_age(birthday, words, acc) ==
    IF words = <<>> THEN acc
    ELSE LET age_months == calculate_age_in_months(birthday, Head(words)["date_added"])
             next == [a \in DOMAIN acc \cup {age_months} |->
                         IF a = age_months
                         THEN Append(Get(acc, a, <<>>), Head(words)["word"])
                         ELSE acc[a]]
         IN  words_by_age(birthday, Tail(words), next)

\* sorted(keys)
RECURSIVE sorted(_)
sorted(keys) ==
    IF keys = {} THEN <<>>
    ELSE LET least == CHOOSE k \in keys : \A other \in keys : k <= other
         IN  <<least>> \o sorted(keys \ {least})

\* "<br>".join(words)
RECURSIVE join(_, _)
join(sep, strings) ==
    IF strings = <<>> THEN <<>>
    ELSE IF Len(strings) = 1 THEN Head(strings)
    ELSE Head(strings) \o sep \o join(sep, Tail(strings))

\* f"{age} months"
age_label(age) == <<age, " months">>

\* a series whose counts are per bucket, not running totals
RECURSIVE chart_series_per_bucket(_, _, _, _)
chart_series_per_bucket(by_age, sorted_ages, i, acc) ==
    IF i > Len(sorted_ages) THEN acc
    ELSE LET words_at_age == by_age[sorted_ages[i]]
         IN  chart_series_per_bucket(by_age, sorted_ages, i + 1,
                 [cumulative_total |-> Len(words_at_age),
                  cumulative_count |-> Append(acc.cumulative_count, Len(words_at_age)),
                  age_labels       |-> Append(acc.age_labels, age_label(sorted_ages[i])),
                  words_per_period |-> Append(acc.words_per_period, Len(words_at_age)),
                  word_lists       |-> Append(acc.word_lists, join(<<"<br>">>, words_at_age))])

\* the loop of lines 135-141 over sorted_ages from position i on
RECURSIVE chart_series(_, _, _, _)
chart_series(by_age, sorted_ages, i, acc) ==
    IF i > Len(sorted_ages) THEN acc
    ELSE LET words_at_age == by_age[sorted_ages[i]]
             total == acc.cumulative_total + Len(words_at_age)
         IN  chart_series(by_age, sorted_ages, i + 1,
                 [cumulative_total |-> total,
                  cumulative_count |-> Append(acc.cumulative_count, total),
                  age_labels       |-> Append(acc.age_labels, age_label(sorted_ages[i])),
                  words_per_period |-> Append(acc.words_per_period, Len(words_at_age)),
                  word_lists       |-> Append(acc.word_lists, join(<<"<br>">>, words_at_age))])

\* list(zip(a, b))
zip(a, b) == [i \in 1..Min(Len(a), Len(b)) |-> <<a[i], b[i]>>]

\* the go.Bar trace of lines 147-160
Figure(series) ==
    [x          |-> series.age_labels,
     y          |-> series.cumulative_count,
     text       |-> series.cumulative_count,
     customdata |-> zip(series.words_per_period, series.word_lists)]

\* lines 118-177: child_data["birthday"] raises KeyError when the key is missing
build_chart(child) ==
    IF "birthday" \notin DOMAIN child THEN Raise("KeyError")
    ELSE LET by_age == words_by_age(child["birthday"], child["words"], <<>>)
             empty  == [cumulative_total |-> 0, cumulative_count |-> <<>>,
                        age_labels |-> <<>>, words_per_period |-> <<>>,
                        word_lists |-> <<>>]
         IN  Return(Figure(chart_series(by_age, sorted(DOMAIN by_age), 1, empty)))

\* a chart that does not test for the birthday
create_vocabulary_chart_no_birthday_test(child) ==
    IF child["words"] = <<>> THEN Return(None) ELSE build_chart(child)

create_vocabulary_chart(child) ==
    IF child["words"] = <<>> \/ "birthday" \notin DOMAIN child THEN Return(None)
    ELSE build_chart(child)

-----------------------------------------------------------------------------
(* Inputs *)

MaxWords == 6       \* longest vocabulary given to get_practice_words
MaxRows == 6        \* longest reference corpus given to get_practice_words
MaxTotal == 6       \* most vocabulary entries and corpus rows together
MaxChartWords == 3  \* longest vocabulary given to create_vocabulary_chart
MaxVocab == 2       \* longest vocabulary built through the forms of main()

up == <<"u", "p">>
Up == <<"U", "p">>
dog == <<"d", "o", "g">>
mama == <<"m", "a", "m", "a">>

Row(word, age, strategy) ==
    ("Word" :> word) @@ ("Typical Age (Months)" :> age) @@ ("Learning Strategy" :> strategy)

\* a row of a file that has no "Learning Strategy" column
RowNoStrategy(word, age) == ("Word" :> word) @@ ("Typical Age (Months)" :> age)

RowPool ==
    {Row(Up, 10, <<"point up">>), Row(dog, 10, NaN), Row(up, 8, NaN),
     Row(mama, 9, <<"say mama">>)}

RowPoolNoStrategy == {RowNoStrategy(dog, 10), RowNoStrategy(mama, 9)}

\* the frames of n rows: every row of a frame has the same columns
Frames(n) == [1..n -> RowPool] \cup [1..n -> RowPoolNoStrategy]

Birthday == <<2024, 1, 15>>

Entry(word, date, speaks, asl, confidence) ==
    [word |-> word, date_added |-> date, speaks |-> speaks, asl |-> asl,
     confidence |-> confidence]

PracticeEntries ==
    {Entry(up, <<2024, 3, 10>>, TRUE, FALSE, 45), Entry(Up, <<2024, 3, 10>>, TRUE, FALSE, 45),
     Entry(dog, <<2024, 3, 10>>, TRUE, FALSE, 45), Entry(dog, <<2024, 3, 10>>, TRUE, FALSE, 50)}

ChartDates ==
    {<<2023, 12, 20>>, <<2024, 1, 16>>, <<2024, 1, 31>>, <<2024, 3, 10>>, <<2025, 1, 1>>}

ChartEntries ==
    [word : {up, dog}, date_added : ChartDates,
     speaks : {TRUE}, asl : {FALSE}, confidence : {45}]

ChartFrames == {<<>>, <<Row(mama, 9, <<"say mama">>)>>}

\* what the caregiver can type or pick in the forms
TextInputs == {<<>>, <<" ">>, up, <<" ", "U", "p", " ">>}
DateInputs == {<<2023, 12, 20>>, <<2024, 3, 10>>}
SliderInputs == {45, 100}

-----------------------------------------------------------------------------
(* The functions applied to given inputs *)

InitPractice ==
    /\ \E n \in 0..MaxWords, m \in 0..MaxRows :
          /\ n + m <= MaxTotal
          /\ \E words \in [1..n -> PracticeEntries] :
                child_data = [words |-> words, birthday |-> Birthday]
          /\ typical_words_df \in Frames(m)
    /\ practice_words = NotCalled
    /\ chart = NotCalled

InitChart ==
    /\ \E n \in 0..MaxChartWords :
          \E words \in [1..n -> ChartEntries] :
              child_data \in {[words |-> words], [words |-> words, birthday |-> Birthday]}
    /\ typical_words_df \in ChartFrames
    /\ practice_words = NotCalled
    /\ chart = NotCalled

CallGetPracticeWords ==
    /\ practice_words = NotCalled
    /\ practice_words' = get_practice_words(child_data, typical_words_df)
    /\ UNCHANGED <<child_data, typical_words_df, chart>>

CallCreateVocabularyChart ==
    /\ chart = NotCalled
    /\ chart' = create_vocabulary_chart(child_data)
    /\ UNCHANGED <<child_data, typical_words_df, practice_words>>

NextPractice == CallGetPracticeWords

SpecPractice == InitPractice /\ [][NextPractice]_vars

NextChart == CallCreateVocabularyChart \/ CallGetPracticeWords

SpecChart == InitChart /\ [][NextChart]_vars

-----------------------------------------------------------------------------
(* main(): the forms and pages of the selected child *)

Init ==
    /\ child_data \in {[words |-> <<>>], [words |-> <<>>, birthday |-> Birthday]}
    /\ typical_words_df \in ChartFrames
    /\ practice_words = NotCalled
    /\ chart = NotCalled

\* lines 335-346: the "Add Word" form; the rerun shows the Track Words page
AddWord ==
    \E new_word \in TextInputs, word_date \in DateInputs,
       speaks \in BOOLEAN, asl \in BOOLEAN, confidence \in SliderInputs :
        /\ Len(child_data["words"]) < MaxVocab
        /\ new_word # <<>>
        /\ child_data' =
               [child_data EXCEPT !["words"] =
                   Append(@, Entry(strip(new_word), word_date, speaks, asl, confidence))]
        /\ practice_words' = NotCalled
        /\ chart' = NotCalled
        /\ UNCHANGED typical_words_df

\* lines 410-420: "Save Changes" in the edit form of the word at actual_idx
SaveChanges ==
    \E actual_idx \in DOMAIN child_data["words"],
       edit_word \in TextInputs, edit_date \in DateInputs,
       edit_speaks \in BOOLEAN, edit_asl \in BOOLEAN, edit_confidence \in SliderInputs :
        /\ child_data' =
               [child_data EXCEPT !["words"][actual_idx] =
                   Entry(strip(edit_word), edit_date, edit_speaks, edit_asl, edit_confidence)]
        /\ practice_words' = NotCalled
        /\ chart' = NotCalled
        /\ UNCHANGED typical_words_df

\* list.pop(i), with i counted from 1
pop(seq, i) == SubSeq(seq, 1, i - 1) \o SubSeq(seq, i + 1, Len(seq))

\* lines 422-425: "Delete Word" in the edit form of the word at actual_idx
DeleteWord ==
    \E actual_idx \in DOMAIN child_data["words"] :
        /\ child_data' = [child_data EXCEPT !["words"] = pop(@, actual_idx)]
        /\ practice_words' = NotCalled
        /\ chart' = NotCalled
        /\ UNCHANGED typical_words_df

\* lines 259-268: the View Chart page
ViewChart ==
    /\ chart' = IF child_data["words"] # <<>> /\ "birthday" \in DOMAIN child_data
                THEN create_vocabulary_chart(child_data)
                ELSE NotCalled
    /\ practice_words' = NotCalled
    /\ UNCHANGED <<child_data, typical_words_df>>

\* lines 269-274: the "Add Birthday" form of the View Chart page; the rerun shows the chart
AddBirthday ==
    \E new_birthday \in {Birthday} :
        /\ child_data["words"] # <<>>
        /\ "birthday" \notin DOMAIN child_data
        /\ child_data' = [words |-> child_data["words"], birthday |-> new_birthday]
        /\ chart' = create_vocabulary_chart(child_data')
        /\ practice_words' = NotCalled
        /\ UNCHANGED typical_words_df

\* lines 276-281: the Practice Words page
ViewPracticeWords ==
    /\ practice_words' = get_practice_words(child_data, typical_words_df)
    /\ chart' = NotCalled
    /\ UNCHANGED <<child_data, typical_words_df>>

Next ==
    \/ AddWord
    \/ SaveChanges
    \/ DeleteWord
    \/ ViewChart
    \/ AddBirthday
    \/ ViewPracticeWords

Spec == Init /\ [][Next]_vars

-----------------------------------------------------------------------------
(* Properties of get_practice_words *)

Words == child_data["words"]
PracticeReturned == practice_words.status = "returned"
Items == practice_words.value

\* the positions of the vocabulary entries with confidence below 50
LowPositions == {i \in DOMAIN Words : Words[i]["confidence"] < 50}

\* the corpus rows that name the word, in any casing
RowsOf(word) == {r \in DOMAIN typical_words_df : lower(typical_words_df[r]["Word"]) = lower(word)}

InVocabCount == Cardinality({i \in DOMAIN Items : Items[i].in_vocab})

\* C1: the list get_practice_words returns has at most 5 items.
C1_AtMostFive == PracticeReturned => Len(Items) <= 5

C1_Witness ==
    /\ PracticeReturned
    /\ Cardinality(LowPositions) > 5
    /\ Len(Items) = 5

\* C2: the in_vocab items form a prefix of the list, their typical_age is
\* non-decreasing along it, and a word absent from the corpus has typical age 999.
C2_InVocabPrefixSorted ==
    PracticeReturned =>
        \A i \in DOMAIN Items, j \in DOMAIN Items :
            /\ (i < j /\ Items[j].in_vocab) =>
                   (Items[i].in_vocab /\ Items[i].typical_age <= Items[j].typical_age)
            /\ (Items[i].in_vocab /\ RowsOf(Items[i].word) = {}) => Items[i].typical_age = 999

\* the sort had to move an entry, an unknown word is last of the prefix, a corpus word follows
C2_Witness ==
    /\ PracticeReturned
    /\ \E i \in LowPositions, j \in LowPositions :
          i < j /\ RowsOf(Words[i]["word"]) = {} /\ RowsOf(Words[j]["word"]) # {}
    /\ \E i \in DOMAIN Items : Items[i].in_vocab /\ Items[i].typical_age = 999
    /\ \E i \in DOMAIN Items : ~Items[i].in_vocab

\* the corpus rows whose word the child does not have, in any casing and at any confidence
EligibleRows ==
    {r \in DOMAIN typical_words_df :
        \A i \in DOMAIN Words : lower(typical_words_df[r]["Word"]) # lower(Words[i]["word"])}

\* the n-th of the rows, in the order of the corpus
Nth(rows, n) == CHOOSE r \in rows : Cardinality({q \in rows : q < r}) = n - 1

\* C3, as stated: with no low-confidence entry and a corpus of at least 5 rows,
\* get_practice_words returns exactly 5 items, none of them in_vocab.
C3_AsStated ==
    (PracticeReturned /\ LowPositions = {} /\ Len(typical_words_df) >= 5) =>
        (Len(Items) = 5 /\ \A i \in DOMAIN Items : ~Items[i].in_vocab)

\* C3, amended: with no low-confidence entry and at least 5 corpus rows whose word
\* the child does not have in any casing, get_practice_words returns exactly 5
\* items, none of them in_vocab.
C3_FallbackComplete ==
    (PracticeReturned /\ LowPositions = {} /\ Cardinality(EligibleRows) >= 5) =>
        (Len(Items) = 5 /\ \A i \in DOMAIN Items : ~Items[i].in_vocab)

C3_Witness ==
    /\ PracticeReturned
    /\ Words # <<>>
    /\ LowPositions = {}
    /\ Cardinality(EligibleRows) >= 5
    /\ Len(Items) = 5

\* C6: after the in_vocab items come the corpus rows whose lower-cased word is not
\* the lower-cased form of any vocabulary word, in corpus order, each with
\* in_vocab = false and confidence = 0, until the list has 5 items or the rows run out.
C6_FallbackFill ==
    PracticeReturned =>
        LET kept == Min(5, Cardinality(LowPositions))
            eligible == EligibleRows
        IN  /\ Len(Items) = kept + Min(5 - kept, Cardinality(eligible))
            /\ \A n \in 1..(Len(Items) - kept) :
                  LET item == Items[kept + n]
                      row  == typical_words_df[Nth(eligible, n)]
                  IN  /\ ~item.in_vocab
                      /\ item.confidence = 0
                      /\ item.word = row["Word"]
                      /\ item.typical_age = row["Typical Age (Months)"]
            /\ \A i \in DOMAIN Items, j \in DOMAIN Words :
                  ~Items[i].in_vocab => lower(Items[i].word) # lower(Words[j]["word"])

\* a row is skipped for a vocabulary word spelled in another casing, a later row is taken
C6_Witness ==
    /\ PracticeReturned
    /\ Len(Items) = 5
    /\ \E r \in DOMAIN typical_words_df, i \in DOMAIN Words :
          /\ typical_words_df[r]["Word"] # Words[i]["word"]
          /\ lower(typical_words_df[r]["Word"]) = lower(Words[i]["word"])
          /\ \E q \in EligibleRows : r < q
    /\ \E i \in DOMAIN Items : ~Items[i].in_vocab

\* the strategy texts the corpus holds for the word, in any casing
StrategyTexts(word) ==
    {typical_words_df[r]["Learning Strategy"] :
        r \in {q \in RowsOf(word) :
                  /\ "Learning Strategy" \in DOMAIN typical_words_df[q]
                  /\ typical_words_df[q]["Learning Strategy"] \notin {NaN, <<>>}}}

\* C7: the strategy of every item is the corpus's strategy text for its word, and is
\* "Practice this word regularly with your child." when the word is absent from the
\* corpus or its corpus strategy is empty or missing.
C7_Strategy ==
    PracticeReturned =>
        \A i \in DOMAIN Items :
            IF StrategyTexts(Items[i].word) = {}
            THEN Items[i].strategy = DefaultStrategy
            ELSE Items[i].strategy \in StrategyTexts(Items[i].word) \cup {DefaultStrategy}

\* the typical age line 47 looks up: that of the last corpus row naming the word, else 999
TypicalAge(word) ==
    IF RowsOf(word) = {} THEN 999
    ELSE typical_words_df[CHOOSE r \in RowsOf(word) : \A q \in RowsOf(word) : q <= r]
             ["Typical Age (Months)"]

\* the place of the entry at position i in the stable ascending sort by the ages
Rank(age, i) ==
    1 + Cardinality({j \in DOMAIN age : age[j] < age[i] \/ (age[j] = age[i] /\ j < i)})

\* the typical age of every entry with confidence below 50
LowAges == [i \in LowPositions |-> TypicalAge(Words[i]["word"])]

\* C10: the in_vocab items are the first min(5, k) of the k entries with confidence
\* below 50, sorted by typical age with ties in vocabulary order, each with the
\* entry's own word and confidence.
C10_StableLowConfidence ==
    PracticeReturned =>
        LET age == LowAges
        IN  /\ InVocabCount = Min(5, Cardinality(DOMAIN age))
            /\ \A i \in DOMAIN age :
                  LET rank == Rank(age, i)
                  IN  rank <= 5 =>
                          /\ Items[rank].in_vocab
                          /\ Items[rank].word = Words[i]["word"]
                          /\ Items[rank].confidence = Words[i]["confidence"]
                          /\ Items[rank].typical_age = age[i]

\* case variants tie at the sentinel, a later known word sorts before them, and an
\* entry at exactly 50 is left out
C10_Witness ==
    /\ PracticeReturned
    /\ \E i \in LowPositions, j \in LowPositions :
          /\ i < j
          /\ Words[i]["word"] # Words[j]["word"]
          /\ LowAges[i] = 999
          /\ LowAges[j] = 999
    /\ \E i \in LowPositions, j \in LowPositions : i < j /\ LowAges[j] < LowAges[i]
    /\ \E i \in DOMAIN Words : Words[i]["confidence"] = 50

-----------------------------------------------------------------------------
(* Properties of create_vocabulary_chart *)

ChartReturned == chart.status = "returned"
ChartDrawn == ChartReturned /\ chart.value # None

RECURSIVE Sum(_)
Sum(numbers) == IF numbers = <<>> THEN 0 ELSE Head(numbers) + Sum(Tail(numbers))

\* the age buckets of the vocabulary
Ages == {calculate_age_in_months(child_data["birthday"], Words[i]["date_added"]) : i \in DOMAIN Words}

\* C4: the cumulative totals of the chart, in output order, are non-decreasing and
\* the last one is the number of entries in the vocabulary.
C4_CumulativeMonotonic ==
    ChartDrawn =>
        LET y == chart.value.y
        IN  /\ \A i \in DOMAIN y, j \in DOMAIN y : i < j => y[i] <= y[j]
            /\ y # <<>>
            /\ y[Len(y)] = Len(Words)

\* three buckets, one before the birthday, entered out of date order
C4_Witness ==
    /\ ChartDrawn
    /\ Len(chart.value.y) = 3
    /\ \E a \in Ages : a < 0
    /\ \E i \in DOMAIN Words, j \in DOMAIN Words :
          /\ i < j
          /\ calculate_age_in_months(child_data["birthday"], Words[j]["date_added"])
                 < calculate_age_in_months(child_data["birthday"], Words[i]["date_added"])

\* C5: the new-word counts of the growth points add up to the number of entries
\* in the vocabulary.
C5_BucketSum ==
    ChartDrawn =>
        Sum([i \in DOMAIN chart.value.customdata |-> chart.value.customdata[i][1]]) = Len(Words)

\* two entries share a bucket, a third has its own
C5_Witness ==
    /\ ChartDrawn
    /\ Len(Words) = 3
    /\ Len(chart.value.customdata) = 2
    /\ \E i \in DOMAIN chart.value.customdata : chart.value.customdata[i][1] = 2

\* C8: create_vocabulary_chart returns None, raising nothing, for a child with no
\* birthday and for a child with no words; get_practice_words returns an empty
\* list, raising nothing, for a child with no words and an empty corpus.
C8_NoDataNoError ==
    /\ (chart # NotCalled /\ "birthday" \notin DOMAIN child_data) => chart = Return(None)
    /\ (chart # NotCalled /\ Words = <<>>) => chart = Return(None)
    /\ (practice_words # NotCalled /\ Words = <<>> /\ typical_words_df = <<>>) =>
           practice_words = Return(<<>>)

\* the chart was asked for a child with words and no birthday
C8_Witness ==
    /\ "birthday" \notin DOMAIN child_data
    /\ Words # <<>>
    /\ chart = Return(None)

-----------------------------------------------------------------------------
(* Properties of the word list kept by main() *)

\* C9: every stored entry has a confidence in 0..100 and a word that is not empty
\* once trimmed.
C9_EntriesValid ==
    \A i \in DOMAIN Words :
        /\ Words[i]["confidence"] \in 0..100
        /\ strip(Words[i]["word"]) # <<>>

-----------------------------------------------------------------------------
(* Properties of the growth points *)

\* the bucket of the entry at position i: the year and month fields of the two
\* dates only, the day fields not read
Bucket(i) ==
    (Words[i]["date_added"][1] - child_data["birthday"][1]) * 12
        + (Words[i]["date_added"][2] - child_data["birthday"][2])

Buckets == {Bucket(i) : i \in DOMAIN Words}

\* the words of the entries of a bucket, in vocabulary order
RECURSIVE WordsOfBucket(_, _)
WordsOfBucket(bucket, i) ==
    IF i > Len(Words) THEN <<>>
    ELSE IF Bucket(i) = bucket
         THEN <<Words[i]["word"]>> \o WordsOfBucket(bucket, i + 1)
         ELSE WordsOfBucket(bucket, i + 1)

\* C11: the chart has exactly one growth point per distinct age_months =
\* (year difference) * 12 + (month difference), in strictly ascending order of
\* age_months, whatever the day of the month; an entry dated before the birthday
\* keeps its negative bucket; the words of a bucket are in insertion order.
C11_OnePointPerBucket ==
    ChartDrawn =>
        LET x == chart.value.x
            customdata == chart.value.customdata
        IN  /\ Len(x) = Cardinality(Buckets)
            /\ Len(customdata) = Len(x)
            /\ {x[n][1] : n \in DOMAIN x} = Buckets
            /\ \A n \in DOMAIN x, k \in DOMAIN x : n < k => x[n][1] < x[k][1]
            /\ \A n \in DOMAIN x :
                  /\ customdata[n][1] = Len(WordsOfBucket(x[n][1], 1))
                  /\ customdata[n][2] = join(<<"<br>">>, WordsOfBucket(x[n][1], 1))

\* a bucket before the birthday comes first; two different words entered on
\* different days of one month share the next bucket
C11_Witness ==
    /\ ChartDrawn
    /\ Len(chart.value.x) = 2
    /\ chart.value.x[1][1] < 0
    /\ \E i \in DOMAIN Words, j \in DOMAIN Words :
          /\ i < j
          /\ Bucket(i) = Bucket(j)
          /\ Words[i]["date_added"][3] > Words[j]["date_added"][3]
          /\ Words[i]["word"] # Words[j]["word"]
    /\ Bucket(1) >= 0

====
